---- MODULE Spec2Model ----
(***************************************************************************)
(* Model of the DALI USB bridge session (source/dali_usb.py, class         *)
(* DALI_Usb) and of the display loop that consumes it (source/main.py).    *)
(*                                                                         *)
(* One session object owns a bounded queue, a running flag and a sequence  *)
(* counter.  start_read() launches a polling thread that reads 64-byte     *)
(* packets from the bridge, fills in ONE Raw_Frame object per thread and   *)
(* puts a reference to it on the queue.  The consumer thread takes the     *)
(* references off the queue and renders them.  write() packs a command     *)
(* of 1..3 bytes into an outgoing 64-byte packet.                          *)
(***************************************************************************)
EXTENDS Integers, Sequences, FiniteSets, TLC

(***************************************************************************)
(* Program constants (dali_usb.py lines 16..24 and 31).                    *)
(***************************************************************************)
DALI_USB_DIRECTION_FROM_DALI == 17
DALI_USB_DIRECTION_TO_DALI == 18
DALI_USB_TYPE_NO == 1
DALI_USB_TYPE_8BIT == 2
DALI_USB_TYPE_16BIT == 3
DALI_USB_TYPE_25BIT == 4
DALI_USB_TYPE_24BIT == 6
DALI_USB_TYPE_STATUS == 7
DALI_USB_RECEIVE_MASK == 112
QueueMaxSize == 40
PacketSize == 64

(***************************************************************************)
(* Bounds of the model.                                                    *)
(***************************************************************************)
\* packets the bus delivers in one behaviour of Spec
MaxPackets == 3
\* start_read() calls in one behaviour of Spec (one polling thread each)
MaxStarts == 2
\* the host clock runs from 1 to MaxClock
MaxClock == 2

Byte == 0..255
Workers == 1..MaxStarts

(***************************************************************************)
(* The DALI module (Raw_Frame, DALIError, DeviceType, Decode) is imported  *)
(* by both source files; its text is not part of the sources at hand.      *)
(* Raw_Frame is a mutable object with the fields type, timestamp, length   *)
(* and data; its kinds are COMMAND, ERROR and INVALID.                     *)
(***************************************************************************)
RawFrameInit == [type |-> "INVALID", timestamp |-> 0, length |-> 0, data |-> 0]

\* DALIError kinds, stored in Raw_Frame.length of an ERROR frame; they are
\* numbered apart from the frame widths 8, 16 and 24
DALIError_RECOVER == -1
DALIError_FRAME == -2
DALIError_GENERAL == -3

\* DeviceType: NONE, or the number of the device type that was enabled.
DeviceType_NONE == -1
DeviceType_LED == 6
\* address byte of the special command ENABLE DEVICE TYPE (16-bit frames)
EnableDeviceTypeByte == 193

\* DecodedCommand.get_next_device_type() of Decode(raw, active_device_type)
NextDeviceType(raw, active_device_type) ==
    IF raw.length = 16 /\ (raw.data \div 256) = EnableDeviceTypeByte
    THEN raw.data % 256
    ELSE DeviceType_NONE

(***************************************************************************)
(* DALI.Decode(raw, device_type).cmd(): the label of a 16-bit frame whose   *)
(* address byte has its lowest bit set (a command, not a direct value).    *)
(* A label is a sequence of ten single characters, the address tag padded  *)
(* with blanks, followed by the command name or the placeholder.           *)
(***************************************************************************)
DigitChars == <<"0", "1", "2", "3", "4", "5", "6", "7", "8", "9">>

\* n as two decimal digits
TwoDigits(n) == <<DigitChars[(n \div 10) + 1], DigitChars[(n % 10) + 1]>>

\* width of the address column
TagColumns == 10

\* a tag left-justified in the address column
PadTag(tag) == tag \o [i \in 1..(TagColumns - Len(tag)) |-> " "]

\* the tag of an address byte: broadcast, broadcast unaddressed, short
\* address (top bit 0, six address bits) or group (top bits 100, four bits)
AddressTag(address) ==
    CASE address \div 2 = 127 -> <<"B", "C">>
      [] address \div 2 = 126 -> <<"B", "C", " ", "u", "n", "a", "d", "r", ".">>
      [] address < 128 -> <<"A">> \o TwoDigits(address \div 2)
      [] address >= 128 /\ address < 160 -> <<"G">> \o TwoDigits((address - 128) \div 2)

\* the opcode table of device type 6 (LED modules), opcodes 0xE0..0xFF
LedCommandNames ==
    (224 :> "REFERENCE SYSTEM POWER") @@ (227 :> "SELECT DIMMING CURVE (DTR0)")
    @@ (228 :> "SET FAST FADE TIME (DTR0)") @@ (237 :> "QUERY CONTROL GEAR TYPE")
    @@ (238 :> "QUERY DIMMING CURVE") @@ (240 :> "QUERY FEATURES")
    @@ (244 :> "QUERY LOAD DECREASE") @@ (245 :> "QUERY LOAD INCREASE")
    @@ (247 :> "QUERY THERMAL SHUTDOWN") @@ (248 :> "QUERY THERMAL OVERLOAD")
    @@ (249 :> "QUERY REFERENCE RUNNING")
    @@ (250 :> "QUERY REFERENCE MEASUREMENT FAILED")
    @@ (253 :> "QUERY FAST FADE TIME") @@ (254 :> "QUERY MIN FAST FADE TIME")
    @@ (255 :> "QUERY EXTENDED VERSION NUMBER")

\* the name the table selected by the device type has for the opcode, or
\* the placeholder when it has none
CommandName(device_type, opcode) ==
    IF device_type = DeviceType_LED /\ opcode \in DOMAIN LedCommandNames
    THEN LedCommandNames[opcode]
    ELSE "---"

\* Decode(raw, device_type).cmd() for a 16-bit frame
DecodeCmd(raw, device_type) ==
    PadTag(AddressTag(raw.data \div 256)) \o <<CommandName(device_type, raw.data % 256)>>

(***************************************************************************)
(* Packets are functions from the byte offsets 0..63 to bytes.             *)
(***************************************************************************)
\* x << n on Python integers
ShiftLeft(x, n) == x * (2 ^ n)

\* StructPack with the fields at the offsets of the inbound layout
StructPackInboundLayout(dr, sn, ty, ec, ad, oc) ==
    [i \in 0..(PacketSize - 1) |->
        CASE i = 0 -> dr
          [] i = 1 -> sn
          [] i = 2 -> ty
          [] i = 3 -> ec
          [] i = 4 -> ad
          [] i = 5 -> oc
          [] OTHER -> 0]

\* struct.pack("BBxBxBBB" + (64 - 8) * 'x', dr, sn, ty, ec, ad, oc)
StructPack(dr, sn, ty, ec, ad, oc) ==
    [i \in 0..(PacketSize - 1) |->
        CASE i = 0 -> dr
          [] i = 1 -> sn
          [] i = 3 -> ty
          [] i = 5 -> ec
          [] i = 6 -> ad
          [] i = 7 -> oc
          [] OTHER -> 0]

\* a packet as the bridge sends it: direction, type, the three frame bytes
\* and the echoed sequence number, the other bytes zero
BridgePacket(dr, ty, ec, ad, oc, sn) ==
    [i \in 0..(PacketSize - 1) |->
        CASE i = 0 -> dr
          [] i = 1 -> ty
          [] i = 3 -> ec
          [] i = 4 -> ad
          [] i = 5 -> oc
          [] i = 8 -> sn
          [] OTHER -> 0]

NoPacket == <<>>
NoLine == [kind |-> "none"]
NothingRead == [timestamp |-> 0, length |-> 0, data |-> 0]

VARIABLES
    worker_running,     \* DALI_Usb.worker_running
    message_counter,    \* DALI_Usb.message_counter
    queue,              \* DALI_Usb.queue: references (thread ids) to Raw_Frame objects
    raw,                \* raw[w]: the Raw_Frame object of polling thread w
    pc,                 \* pc[w]: position of polling thread w
    read_result,        \* read_result[w]: outcome of the last read_raw of thread w
    data,               \* data[w]: the packet thread w read last
    now,                \* the host clock read by time.time()
    device_present,     \* FALSE once the bridge has been unplugged
    c_pc,               \* position of the consumer thread (main)
    c_raw,              \* main: raw, the reference read_raw_frame returned (0: none)
    last_timestamp,     \* main: last_timestamp
    delta,              \* main: delta
    active_device_type, \* main: active_device_type
    printed,            \* main: the line printed last
    c_frame,            \* main: the field values read for the line being built
    usb_out,            \* the packet handed to ep_write.write last
    n_out,              \* number of packets handed to ep_write.write
    write_result,       \* outcome of the last write() call
    write_cmd,          \* argument of the last write() call
    queued_as,          \* history: the field values each queued reference had when put
    returned_as,        \* history: the field values the returned reference had when put
    decoded,            \* history: number of Decode calls so far, capped at 2
    last_next,          \* history: the next device type the last Decode call returned
    reads_since_stop,   \* history: reads thread w finished since the flag was cleared
    stop_queue,         \* history: queued at the last close() and not yet returned
    clear_pending,      \* history: queued at the last clear_buffers() call, not yet removed
    pending_inserts,    \* history: bridge packets read minus frames inserted
    traffic,            \* environment: the packets the bus may deliver
    commands,           \* environment: the commands callers pass to write()
    reads_left,         \* environment: packets the bus still delivers
    starts_left,        \* environment: start_read() calls still to come
    writes_left,        \* environment: write() calls still to come
    t_opcode,           \* test_207: the opcode parameter of the running test
    t_case,             \* test_207: number of address cases the test has run
    t_cmd,              \* test_207: decoded_command.cmd() of the last case
    t_target            \* test_207: target_command of the last case

session_vars == <<worker_running, message_counter, queue>>
worker_vars == <<raw, pc, read_result, data, now, device_present>>
consumer_vars == <<c_pc, c_raw, last_timestamp, delta, active_device_type, printed,
                   c_frame>>
write_vars == <<usb_out, n_out, write_result, write_cmd>>
history_vars == <<queued_as, returned_as, decoded, last_next, reads_since_stop>>
env_vars == <<traffic, commands, reads_left, starts_left, writes_left>>
audit_vars == <<stop_queue, clear_pending, pending_inserts>>
test_vars == <<t_opcode, t_case, t_cmd, t_target>>
vars == <<session_vars, worker_vars, consumer_vars, write_vars, history_vars, env_vars,
          audit_vars, test_vars>>

(***************************************************************************)
(* The environment: bus traffic and the commands callers send.             *)
(***************************************************************************)
\* DAPC-style 16-bit command, broadcast, opcode 0x08
Packet16 == BridgePacket(DALI_USB_DIRECTION_FROM_DALI,
                DALI_USB_RECEIVE_MASK + DALI_USB_TYPE_16BIT, 0, 255, 8, 0)
\* ENABLE DEVICE TYPE 6, a 16-bit frame
PacketEnable == BridgePacket(DALI_USB_DIRECTION_FROM_DALI,
                DALI_USB_RECEIVE_MASK + DALI_USB_TYPE_16BIT, 0, EnableDeviceTypeByte,
                DeviceType_LED, 0)
\* status packet, sub-code 0x04
PacketStatus == BridgePacket(DALI_USB_DIRECTION_FROM_DALI,
                DALI_USB_RECEIVE_MASK + DALI_USB_TYPE_STATUS, 0, 0, 4, 0)
\* echo of a packet the host sent
PacketEcho == BridgePacket(DALI_USB_DIRECTION_TO_DALI,
                DALI_USB_RECEIVE_MASK + DALI_USB_TYPE_16BIT, 0, 255, 8, 1)
\* bridge-originated packet whose type byte is none of the four codes
PacketNoType == BridgePacket(DALI_USB_DIRECTION_FROM_DALI,
                DALI_USB_RECEIVE_MASK + DALI_USB_TYPE_NO, 0, 255, 8, 0)

TrafficPool == {Packet16, PacketEnable, PacketStatus, PacketEcho, PacketNoType}

\* commands of the display session: one valid, one of invalid length
SessionCommands == {<<255, 8>>, <<>>}

\* the state after DALI_Usb.__init__ and the first lines of main(), in an
\* environment that delivers `reads` packets drawn from `tr`, calls
\* start_read() `starts` times and write() `writes` times with commands
\* from `cmds`, the host clock standing at `clock`
InitWith(tr, cmds, reads, starts, writes, clock) ==
    /\ worker_running = FALSE
    /\ message_counter = 1
    /\ queue = <<>>
    /\ raw = [w \in Workers |-> RawFrameInit]
    /\ pc = [w \in Workers |-> "idle"]
    /\ read_result = [w \in Workers |-> "none"]
    /\ data = [w \in Workers |-> NoPacket]
    /\ now = clock
    /\ device_present = TRUE
    /\ c_pc = "get"
    /\ c_raw = 0
    /\ last_timestamp = 0
    /\ delta = 0
    /\ active_device_type = DeviceType_NONE
    /\ printed = NoLine
    /\ c_frame = NothingRead
    /\ usb_out = NoPacket
    /\ n_out = 0
    /\ write_result = "none"
    /\ write_cmd = <<>>
    /\ queued_as = <<>>
    /\ returned_as = RawFrameInit
    /\ decoded = 0
    /\ last_next = DeviceType_NONE
    /\ reads_since_stop = [w \in Workers |-> 0]
    /\ stop_queue = <<>>
    /\ clear_pending = 0
    /\ pending_inserts = 0
    /\ traffic = tr
    /\ commands = cmds
    /\ reads_left = reads
    /\ starts_left = starts
    /\ writes_left = writes

(***************************************************************************)
(* tests/scripts/test_207.py: each test takes an opcode and decodes it     *)
(* under DeviceType.LED in 82 address cases: broadcast, broadcast          *)
(* unaddressed, the short addresses 0..63 and the groups 0..15.            *)
(***************************************************************************)
\* the (name, opcode) parameters of test_dt6_command
Dt6Commands ==
    {<<"REFERENCE SYSTEM POWER", 224>>, <<"SELECT DIMMING CURVE (DTR0)", 227>>,
     <<"SET FAST FADE TIME (DTR0)", 228>>, <<"QUERY CONTROL GEAR TYPE", 237>>,
     <<"QUERY DIMMING CURVE", 238>>, <<"QUERY FEATURES", 240>>,
     <<"QUERY LOAD DECREASE", 244>>, <<"QUERY LOAD INCREASE", 245>>,
     <<"QUERY THERMAL SHUTDOWN", 247>>, <<"QUERY THERMAL OVERLOAD", 248>>,
     <<"QUERY REFERENCE RUNNING", 249>>,
     <<"QUERY REFERENCE MEASUREMENT FAILED", 250>>,
     <<"QUERY FAST FADE TIME", 253>>, <<"QUERY MIN FAST FADE TIME", 254>>,
     <<"QUERY EXTENDED VERSION NUMBER", 255>>}

\* the opcode parameters of test_dt6_undefined_codes
Dt6UndefinedCodes ==
    {225, 226, 229, 230, 231, 232, 233, 234, 235, 236, 239, 242, 243, 246, 251, 252}

ShortCases == 64
GroupCases == 16
TestCases == 2 + ShortCases + GroupCases

\* str.ljust(width)
Ljust(str, width) == str \o [i \in 1..(width - Len(str)) |-> " "]

\* F"{n:02}"
Format02(n) == <<DigitChars[(n \div 10) + 1], DigitChars[(n % 10) + 1]>>

\* frame.data of address case k (0: broadcast, 1: broadcast unaddressed,
\* 2..65: short address k - 2, 66..81: group k - 66)
TestFrameDataShift8(k, opcode) ==
    IF k = 0 THEN 65280 + opcode
    ELSE IF k = 1 THEN 64768 + opcode
    ELSE IF k < 2 + ShortCases THEN 256 + ShiftLeft(k - 2, 8) + opcode
    ELSE 33024 + ShiftLeft(k - 2 - ShortCases, 8) + opcode

TestFrameData(k, opcode) ==
    IF k = 0 THEN 65280 + opcode
    ELSE IF k = 1 THEN 64768 + opcode
    ELSE IF k < 2 + ShortCases THEN 256 + ShiftLeft(k - 2, 9) + opcode
    ELSE 33024 + ShiftLeft(k - 2 - ShortCases, 9) + opcode

\* the tag the test expects in address case k, before padding
TestTag(k) ==
    IF k = 0 THEN <<"B", "C">>
    ELSE IF k = 1 THEN <<"B", "C", " ", "u", "n", "a", "d", "r", ".">>
    ELSE IF k < 2 + ShortCases THEN <<"A">> \o Format02(k - 2)
    ELSE <<"G">> \o Format02(k - 2 - ShortCases)

\* target_command of address case k with the padding one column short
TestTargetShortPad(k, name) == Ljust(TestTag(k), 9) \o <<name>>

\* target_command of address case k: the padded tag, then the name ("---"
\* in test_dt6_undefined_codes)
TestTarget(k, name) == Ljust(TestTag(k), 10) \o <<name>>

\* no test is running
NoTest ==
    /\ t_opcode = 0
    /\ t_case = TestCases
    /\ t_cmd = <<>>
    /\ t_target = <<>>

\* the display program: one start_read(), no write()
Init == InitWith(TrafficPool, {}, MaxPackets, 1, 0, 1) /\ NoTest

(***************************************************************************)
(* DALI_Usb.start_read and DALI_Usb.close                                  *)
(***************************************************************************)
\* start_read(): set the flag and start a new daemon thread, which creates
\* its Raw_Frame and goes to the loop test
StartRead ==
    /\ starts_left > 0
    /\ \E w \in Workers :
        /\ pc[w] = "idle"
        /\ \A v \in Workers : v < w => pc[v] # "idle"
        /\ pc' = [pc EXCEPT ![w] = "check"]
        /\ raw' = [raw EXCEPT ![w] = RawFrameInit]
    /\ worker_running' = TRUE
    /\ starts_left' = starts_left - 1
    /\ reads_since_stop' = [w \in Workers |-> 0]
    /\ UNCHANGED <<message_counter, queue, read_result, data, now, device_present>>
    /\ UNCHANGED <<consumer_vars, write_vars, queued_as, returned_as, decoded, last_next>>
    /\ UNCHANGED <<traffic, commands, reads_left, writes_left>>
    /\ UNCHANGED audit_vars
    /\ UNCHANGED test_vars

\* close() that also empties the queue
CloseDiscarding ==
    /\ worker_running' = FALSE
    /\ reads_since_stop' = IF worker_running THEN [w \in Workers |-> 0]
                                              ELSE reads_since_stop
    /\ queue' = <<>>
    /\ queued_as' = <<>>
    /\ stop_queue' = queued_as
    /\ UNCHANGED <<clear_pending, pending_inserts>>
    /\ UNCHANGED <<message_counter, returned_as, decoded, last_next>>
    /\ UNCHANGED <<worker_vars, consumer_vars, write_vars, env_vars>>
    /\ UNCHANGED test_vars

\* close(): clear the flag and dispose of the USB resources
Close ==
    /\ worker_running' = FALSE
    /\ reads_since_stop' = IF worker_running THEN [w \in Workers |-> 0]
                                              ELSE reads_since_stop
    /\ UNCHANGED <<message_counter, queue>>
    /\ UNCHANGED <<queued_as, returned_as, decoded, last_next>>
    /\ UNCHANGED <<worker_vars, consumer_vars, write_vars, env_vars>>
    /\ stop_queue' = queued_as
    /\ UNCHANGED <<clear_pending, pending_inserts>>
    /\ UNCHANGED test_vars

(***************************************************************************)
(* DALI_Usb.read_worker_thread                                             *)
(***************************************************************************)
\* while self.worker_running: (the locals of the last iteration are dead)
WorkerCheck(w) ==
    /\ pc[w] = "check"
    /\ pc' = [pc EXCEPT ![w] = IF worker_running THEN "read" ELSE "done"]
    /\ read_result' = [read_result EXCEPT ![w] = "none"]
    /\ data' = [data EXCEPT ![w] = NoPacket]
    /\ UNCHANGED <<raw, now, device_present>>
    /\ UNCHANGED <<session_vars, consumer_vars, write_vars, history_vars, env_vars>>
    /\ UNCHANGED audit_vars
    /\ UNCHANGED test_vars

\* the type bytes of the command branches (lines 168, 171, 174)
CommandTypeBytes == {DALI_USB_RECEIVE_MASK + DALI_USB_TYPE_8BIT,
                     DALI_USB_RECEIVE_MASK + DALI_USB_TYPE_16BIT,
                     DALI_USB_RECEIVE_MASK + DALI_USB_TYPE_24BIT}

\* StatusLength with the sub-codes 3 and 4 exchanged
StatusLengthSwapped(subcode) ==
    IF subcode = 3 THEN DALIError_RECOVER
    ELSE IF subcode = 4 THEN DALIError_FRAME
    ELSE DALIError_GENERAL

\* DALIError kind of a status sub-code (lines 180..185)
StatusLength(subcode) ==
    IF subcode = 4 THEN DALIError_RECOVER
    ELSE IF subcode = 3 THEN DALIError_FRAME
    ELSE DALIError_GENERAL

\* FillFrame reading the frame bytes at the offsets of the outbound layout
FillFrameOutboundOffsets(r, p, t) ==
    LET ty == p[1] IN
    IF ty = DALI_USB_RECEIVE_MASK + DALI_USB_TYPE_8BIT THEN
        [type |-> "COMMAND", timestamp |-> t, length |-> 8, data |-> p[7]]
    ELSE IF ty = DALI_USB_RECEIVE_MASK + DALI_USB_TYPE_16BIT THEN
        [type |-> "COMMAND", timestamp |-> t, length |-> 16,
         data |-> p[7] + ShiftLeft(p[6], 8)]
    ELSE IF ty = DALI_USB_RECEIVE_MASK + DALI_USB_TYPE_24BIT THEN
        [type |-> "COMMAND", timestamp |-> t, length |-> 24,
         data |-> p[7] + ShiftLeft(p[6], 8) + ShiftLeft(p[5], 16)]
    ELSE IF ty = DALI_USB_RECEIVE_MASK + DALI_USB_TYPE_STATUS THEN
        [type |-> "ERROR", timestamp |-> t, length |-> StatusLength(p[5]), data |-> 0]
    ELSE
        [type |-> "COMMAND", timestamp |-> t, length |-> r.length, data |-> r.data]

\* the fields of the thread's Raw_Frame after a bridge-originated packet p
\* read at time t (lines 166..185); r is the object as it was before
FillFrame(r, p, t) ==
    LET ty == p[1] IN
    IF ty = DALI_USB_RECEIVE_MASK + DALI_USB_TYPE_8BIT THEN
        [type |-> "COMMAND", timestamp |-> t, length |-> 8, data |-> p[5]]
    ELSE IF ty = DALI_USB_RECEIVE_MASK + DALI_USB_TYPE_16BIT THEN
        [type |-> "COMMAND", timestamp |-> t, length |-> 16,
         data |-> p[5] + ShiftLeft(p[4], 8)]
    ELSE IF ty = DALI_USB_RECEIVE_MASK + DALI_USB_TYPE_24BIT THEN
        [type |-> "COMMAND", timestamp |-> t, length |-> 24,
         data |-> p[5] + ShiftLeft(p[4], 8) + ShiftLeft(p[3], 16)]
    ELSE IF ty = DALI_USB_RECEIVE_MASK + DALI_USB_TYPE_STATUS THEN
        [type |-> "ERROR", timestamp |-> t, length |-> StatusLength(p[5]), data |-> 0]
    ELSE
        [type |-> "COMMAND", timestamp |-> t, length |-> r.length, data |-> r.data]

\* WorkerReadData that goes on to build a frame for every packet, whatever
\* its direction
WorkerReadDataAnyDirection(w) ==
    /\ pc[w] = "read"
    /\ device_present
    /\ reads_left > 0
    /\ \E p \in traffic :
        /\ data' = [data EXCEPT ![w] = p]
        /\ pc' = [pc EXCEPT ![w] = "set_type"]
    /\ read_result' = [read_result EXCEPT ![w] = "data"]
    /\ reads_left' = reads_left - 1
    /\ reads_since_stop' = [reads_since_stop EXCEPT ![w] =
            IF ~worker_running /\ @ < 2 THEN @ + 1 ELSE @]
    /\ UNCHANGED <<raw, now, device_present>>
    /\ UNCHANGED <<session_vars, consumer_vars, write_vars>>
    /\ UNCHANGED <<queued_as, returned_as, decoded, last_next>>
    /\ UNCHANGED <<traffic, commands, starts_left, writes_left>>
    /\ pending_inserts' = IF data'[w][0] = DALI_USB_DIRECTION_FROM_DALI
                          THEN pending_inserts + 1 ELSE pending_inserts
    /\ UNCHANGED <<stop_queue, clear_pending>>
    /\ UNCHANGED test_vars

\* read_raw returns a packet p (line 146); a packet that is not
\* bridge-originated is only logged (lines 188..189)
WorkerReadData(w) ==
    /\ pc[w] = "read"
    /\ device_present
    /\ reads_left > 0
    /\ \E p \in traffic :
        /\ data' = [data EXCEPT ![w] = p]
        /\ pc' = [pc EXCEPT ![w] = 
                     IF p[0] = DALI_USB_DIRECTION_FROM_DALI THEN "set_type" ELSE "check"]
    /\ read_result' = [read_result EXCEPT ![w] = "data"]
    /\ reads_left' = reads_left - 1
    /\ reads_since_stop' = [reads_since_stop EXCEPT ![w] =
            IF ~worker_running /\ @ < 2 THEN @ + 1 ELSE @]
    /\ UNCHANGED <<raw, now, device_present>>
    /\ UNCHANGED <<session_vars, consumer_vars, write_vars>>
    /\ UNCHANGED <<queued_as, returned_as, decoded, last_next>>
    /\ UNCHANGED <<traffic, commands, starts_left, writes_left>>
    /\ pending_inserts' = IF data'[w][0] = DALI_USB_DIRECTION_FROM_DALI
                          THEN pending_inserts + 1 ELSE pending_inserts
    /\ UNCHANGED <<stop_queue, clear_pending>>
    /\ UNCHANGED test_vars

\* the positions of a thread inside lines 166..185: the assignment it
\* executes next
FillPositions == {"set_type", "set_timestamp", "set_length", "set_data",
                  "set_error", "set_error_data", "set_error_length"}

\* one assignment of lines 166..185 to the thread's Raw_Frame, the object
\* the queue and the consumer hold references to; t is what time.time()
\* returns at line 167.  Each branch assigns its fields of FillFrame one
\* statement at a time.
WorkerFill(w) ==
    /\ pc[w] \in FillPositions
    /\ \E t \in {now, now + 1} :
        LET p == data[w]
            full == FillFrame(raw[w], p, raw[w].timestamp)
        IN  /\ t <= MaxClock
            /\ pc[w] # "set_timestamp" => t = now
            /\ now' = t
            /\ raw' = [raw EXCEPT ![w] =
                  CASE pc[w] = "set_type" -> [@ EXCEPT !.type = "COMMAND"]
                    [] pc[w] = "set_timestamp" -> [@ EXCEPT !.timestamp = t]
                    [] pc[w] \in {"set_length", "set_error_length"} ->
                            [@ EXCEPT !.length = full.length]
                    [] pc[w] \in {"set_data", "set_error_data"} ->
                            [@ EXCEPT !.data = full.data]
                    [] pc[w] = "set_error" -> [@ EXCEPT !.type = full.type]]
            /\ pc' = [pc EXCEPT ![w] =
                  CASE pc[w] = "set_type" -> "set_timestamp"
                    [] pc[w] = "set_timestamp" ->
                            IF p[1] \in CommandTypeBytes THEN "set_length"
                            ELSE IF p[1] = DALI_USB_RECEIVE_MASK + DALI_USB_TYPE_STATUS
                            THEN "set_error"
                            ELSE "put"
                    [] pc[w] = "set_length" -> "set_data"
                    [] pc[w] = "set_data" -> "put"
                    [] pc[w] = "set_error" -> "set_error_data"
                    [] pc[w] = "set_error_data" -> "set_error_length"
                    [] pc[w] = "set_error_length" -> "put"]
    /\ UNCHANGED <<read_result, data, device_present>>
    /\ UNCHANGED <<session_vars, consumer_vars, write_vars, history_vars, env_vars>>
    /\ UNCHANGED audit_vars
    /\ UNCHANGED test_vars

\* read_raw returns an empty array: "if data:" is false
WorkerReadEmpty(w) ==
    /\ pc[w] = "read"
    /\ device_present
    /\ pc' = [pc EXCEPT ![w] = "check"]
    /\ read_result' = [read_result EXCEPT ![w] = "empty"]
    /\ reads_since_stop' = [reads_since_stop EXCEPT ![w] =
            IF ~worker_running /\ @ < 2 THEN @ + 1 ELSE @]
    /\ UNCHANGED <<raw, data, now, device_present>>
    /\ UNCHANGED <<queued_as, returned_as, decoded, last_next>>
    /\ UNCHANGED <<session_vars, consumer_vars, write_vars, env_vars>>
    /\ UNCHANGED audit_vars
    /\ UNCHANGED test_vars

\* WorkerReadError that raises a timeout again like any other error
WorkerReadErrorTimeoutRaised(w) ==
    /\ pc[w] = "read"
    /\ \E e \in {"ETIMEDOUT", "ENODEV", "EIO"} :
        /\ device_present \/ e = "ENODEV"
        /\ read_result' = [read_result EXCEPT ![w] = e]
        /\ device_present' = IF e = "ENODEV" THEN FALSE ELSE device_present
        /\ pc' = [pc EXCEPT ![w] =
                     IF e \notin {"ENODEV"} THEN "raised" ELSE "check"]
    /\ reads_since_stop' = [reads_since_stop EXCEPT ![w] =
            IF ~worker_running /\ @ < 2 THEN @ + 1 ELSE @]
    /\ UNCHANGED <<raw, data, now>>
    /\ UNCHANGED <<queued_as, returned_as, decoded, last_next>>
    /\ UNCHANGED <<session_vars, consumer_vars, write_vars, env_vars>>
    /\ UNCHANGED audit_vars
    /\ UNCHANGED test_vars

\* read_raw raises usb.USBError with errno e (lines 191..193): ETIMEDOUT and
\* ENODEV are swallowed, any other errno is raised again and ends the thread
WorkerReadError(w) ==
    /\ pc[w] = "read"
    /\ \E e \in {"ETIMEDOUT", "ENODEV", "EIO"} :
        /\ device_present \/ e = "ENODEV"
        /\ read_result' = [read_result EXCEPT ![w] = e]
        /\ device_present' = IF e = "ENODEV" THEN FALSE ELSE device_present
        /\ pc' = [pc EXCEPT ![w] =
                     IF e \notin {"ETIMEDOUT", "ENODEV"} THEN "raised" ELSE "check"]
    /\ reads_since_stop' = [reads_since_stop EXCEPT ![w] =
            IF ~worker_running /\ @ < 2 THEN @ + 1 ELSE @]
    /\ UNCHANGED <<raw, data, now>>
    /\ UNCHANGED <<queued_as, returned_as, decoded, last_next>>
    /\ UNCHANGED <<session_vars, consumer_vars, write_vars, env_vars>>
    /\ UNCHANGED audit_vars
    /\ UNCHANGED test_vars

\* WorkerPut as a non-blocking insert that gives up on a full queue
WorkerPutDropping(w) ==
    /\ pc[w] = "put"
    /\ IF Len(queue) < QueueMaxSize
       THEN /\ queue' = Append(queue, w)
            /\ queued_as' = Append(queued_as, raw[w])
       ELSE UNCHANGED <<queue, queued_as>>
    /\ pc' = [pc EXCEPT ![w] = "check"]
    /\ UNCHANGED <<worker_running, message_counter>>
    /\ UNCHANGED <<returned_as, decoded, last_next, reads_since_stop>>
    /\ UNCHANGED <<raw, read_result, data, now, device_present>>
    /\ UNCHANGED <<consumer_vars, write_vars, env_vars>>
    /\ pending_inserts' = IF Len(queue) < QueueMaxSize
                          THEN pending_inserts - 1 ELSE pending_inserts
    /\ UNCHANGED <<stop_queue, clear_pending>>
    /\ UNCHANGED test_vars

\* self.queue.put(raw): blocks while the queue is full, then appends the
\* reference to the thread's one Raw_Frame object
WorkerPut(w) ==
    /\ pc[w] = "put"
    /\ Len(queue) < QueueMaxSize
    /\ queue' = Append(queue, w)
    /\ queued_as' = Append(queued_as, raw[w])
    /\ pc' = [pc EXCEPT ![w] = "check"]
    /\ UNCHANGED <<worker_running, message_counter>>
    /\ UNCHANGED <<returned_as, decoded, last_next, reads_since_stop>>
    /\ UNCHANGED <<raw, read_result, data, now, device_present>>
    /\ UNCHANGED <<consumer_vars, write_vars, env_vars>>
    /\ pending_inserts' = pending_inserts - 1
    /\ UNCHANGED <<stop_queue, clear_pending>>
    /\ UNCHANGED test_vars

(***************************************************************************)
(* The consumer: main() of main.py, with read_raw_frame and clear_buffers  *)
(***************************************************************************)
\* raw = source.read_raw_frame(): queue.get(block=True) waits for an entry
\* and returns the reference at the head of the queue
ConsumerGet ==
    /\ c_pc = "get"
    /\ queue # <<>>
    /\ c_raw' = Head(queue)
    /\ queue' = Tail(queue)
    /\ returned_as' = Head(queued_as)
    /\ queued_as' = Tail(queued_as)
    /\ c_pc' = "process"
    /\ UNCHANGED <<worker_running, message_counter>>
    /\ UNCHANGED <<decoded, last_next, reads_since_stop>>
    /\ UNCHANGED <<last_timestamp, delta, active_device_type, printed, c_frame>>
    /\ UNCHANGED <<worker_vars, write_vars, env_vars>>
    /\ stop_queue' = IF stop_queue # <<>> THEN Tail(stop_queue) ELSE stop_queue
    /\ UNCHANGED <<clear_pending, pending_inserts>>
    /\ UNCHANGED test_vars

\* if not raw.type == raw.INVALID: (line 54), reading the type of the object
\* the reference points to
ConsumerTestInvalid ==
    /\ c_pc = "process"
    /\ c_pc' = IF raw[c_raw].type # "INVALID" THEN "delta" ELSE "get"
    /\ UNCHANGED <<c_raw, last_timestamp, delta, active_device_type, printed, c_frame>>
    /\ UNCHANGED history_vars
    /\ UNCHANGED <<session_vars, worker_vars, write_vars, env_vars>>
    /\ UNCHANGED audit_vars
    /\ UNCHANGED test_vars

\* if last_timestamp != 0: delta = raw.timestamp - last_timestamp (lines 55..56)
ConsumerDelta ==
    /\ c_pc = "delta"
    /\ delta' = IF last_timestamp # 0 THEN raw[c_raw].timestamp - last_timestamp
                                      ELSE delta
    /\ c_pc' = "kind"
    /\ UNCHANGED <<c_raw, last_timestamp, active_device_type, printed, c_frame>>
    /\ UNCHANGED history_vars
    /\ UNCHANGED <<session_vars, worker_vars, write_vars, env_vars>>
    /\ UNCHANGED audit_vars
    /\ UNCHANGED test_vars

\* if raw.type == raw.COMMAND: (line 57), reading the type again
ConsumerTestCommand ==
    /\ c_pc = "kind"
    /\ c_pc' = IF raw[c_raw].type = "COMMAND" THEN "decode" ELSE "error"
    /\ UNCHANGED <<c_raw, last_timestamp, delta, active_device_type, printed, c_frame>>
    /\ UNCHANGED history_vars
    /\ UNCHANGED <<session_vars, worker_vars, write_vars, env_vars>>
    /\ UNCHANGED audit_vars
    /\ UNCHANGED test_vars

\* DALI.Decode(raw, active_device_type) (line 58): Decode reads raw.length
\* and raw.data, one field per step, in either order
ConsumerDecode ==
    /\ c_pc \in {"decode", "decode_got_length", "decode_got_data"}
    /\ \E field \in {"length", "data"} :
        /\ c_pc = "decode_got_length" => field = "data"
        /\ c_pc = "decode_got_data" => field = "length"
        /\ c_frame' = IF field = "length"
                      THEN [c_frame EXCEPT !.length = raw[c_raw].length]
                      ELSE [c_frame EXCEPT !.data = raw[c_raw].data]
        /\ c_pc' = IF c_pc # "decode" THEN "print"
                   ELSE IF field = "length" THEN "decode_got_length"
                   ELSE "decode_got_data"
    /\ UNCHANGED <<c_raw, last_timestamp, delta, active_device_type, printed>>
    /\ UNCHANGED history_vars
    /\ UNCHANGED <<session_vars, worker_vars, write_vars, env_vars>>
    /\ UNCHANGED audit_vars
    /\ UNCHANGED test_vars

\* print_command(absolute_time, raw.timestamp, delta, dali_command) and
\* active_device_type = dali_command.get_next_device_type() (lines 62..63)
ConsumerPrintCommand ==
    /\ c_pc = "print"
    /\ printed' = [kind |-> "command", timestamp |-> raw[c_raw].timestamp,
                   delta |-> delta, length |-> c_frame.length, data |-> c_frame.data,
                   device_type |-> active_device_type]
    /\ active_device_type' = NextDeviceType(c_frame, active_device_type)
    /\ last_next' = NextDeviceType(c_frame, active_device_type)
    /\ decoded' = IF decoded < 2 THEN decoded + 1 ELSE decoded
    /\ c_pc' = "store"
    /\ UNCHANGED <<c_raw, last_timestamp, delta, c_frame>>
    /\ UNCHANGED <<queued_as, returned_as, reads_since_stop>>
    /\ UNCHANGED <<session_vars, worker_vars, write_vars, env_vars>>
    /\ UNCHANGED audit_vars
    /\ UNCHANGED test_vars

\* ConsumerPrintError with the device type context reset by an ERROR frame
ConsumerPrintErrorResetting ==
    /\ c_pc \in {"error", "error_length", "error_data"}
    /\ c_frame' =
          CASE c_pc = "error" -> [c_frame EXCEPT !.timestamp = raw[c_raw].timestamp]
            [] c_pc = "error_length" -> [c_frame EXCEPT !.length = raw[c_raw].length]
            [] c_pc = "error_data" -> [c_frame EXCEPT !.data = raw[c_raw].data]
    /\ printed' = IF c_pc = "error_data"
                  THEN [kind |-> "error", timestamp |-> c_frame.timestamp,
                        delta |-> delta, length |-> c_frame.length,
                        data |-> raw[c_raw].data]
                  ELSE printed
    /\ c_pc' = CASE c_pc = "error" -> "error_length"
                 [] c_pc = "error_length" -> "error_data"
                 [] c_pc = "error_data" -> "store"
    /\ active_device_type' = DeviceType_NONE
    /\ UNCHANGED <<c_raw, last_timestamp, delta>>
    /\ UNCHANGED history_vars
    /\ UNCHANGED <<session_vars, worker_vars, write_vars, env_vars>>
    /\ UNCHANGED audit_vars
    /\ UNCHANGED test_vars

\* print_error(absolute_time, raw, delta) (lines 68, 42..44): the f-string
\* reads raw.timestamp, raw.length and raw.data, one field per step, and the
\* line is printed after the last
ConsumerPrintError ==
    /\ c_pc \in {"error", "error_length", "error_data"}
    /\ c_frame' =
          CASE c_pc = "error" -> [c_frame EXCEPT !.timestamp = raw[c_raw].timestamp]
            [] c_pc = "error_length" -> [c_frame EXCEPT !.length = raw[c_raw].length]
            [] c_pc = "error_data" -> [c_frame EXCEPT !.data = raw[c_raw].data]
    /\ printed' = IF c_pc = "error_data"
                  THEN [kind |-> "error", timestamp |-> c_frame.timestamp,
                        delta |-> delta, length |-> c_frame.length,
                        data |-> raw[c_raw].data]
                  ELSE printed
    /\ c_pc' = CASE c_pc = "error" -> "error_length"
                 [] c_pc = "error_length" -> "error_data"
                 [] c_pc = "error_data" -> "store"
    /\ UNCHANGED active_device_type
    /\ UNCHANGED <<c_raw, last_timestamp, delta>>
    /\ UNCHANGED history_vars
    /\ UNCHANGED <<session_vars, worker_vars, write_vars, env_vars>>
    /\ UNCHANGED audit_vars
    /\ UNCHANGED test_vars

\* last_timestamp = raw.timestamp (line 69), the end of the loop body
ConsumerStore ==
    /\ c_pc = "store"
    /\ last_timestamp' = raw[c_raw].timestamp
    /\ c_frame' = NothingRead
    /\ c_pc' = "get"
    /\ UNCHANGED <<c_raw, delta, active_device_type, printed>>
    /\ UNCHANGED history_vars
    /\ UNCHANGED <<session_vars, worker_vars, write_vars, env_vars>>
    /\ UNCHANGED audit_vars
    /\ UNCHANGED test_vars

\* clear_buffers() is entered between two iterations of the display loop
ClearBuffers ==
    /\ c_pc = "get"
    /\ c_pc' = "clear"
    /\ UNCHANGED <<c_raw, last_timestamp, delta, active_device_type, printed, c_frame>>
    /\ UNCHANGED <<session_vars, worker_vars, write_vars, history_vars, env_vars>>
    /\ clear_pending' = Len(queue)
    /\ UNCHANGED <<stop_queue, pending_inserts>>
    /\ UNCHANGED test_vars

\* while not self.queue.empty():
ClearBuffersTest ==
    /\ c_pc = "clear"
    /\ c_pc' = IF queue # <<>> THEN "clear_get" ELSE "get"
    /\ UNCHANGED <<c_raw, last_timestamp, delta, active_device_type, printed, c_frame>>
    /\ UNCHANGED <<session_vars, worker_vars, write_vars, history_vars, env_vars>>
    /\ UNCHANGED audit_vars
    /\ UNCHANGED test_vars

\* clear_buffers as "if not self.queue.empty(): self.queue.get(block=False)"
ClearBuffersGetOnce ==
    /\ c_pc = "clear_get"
    /\ IF queue # <<>>
       THEN /\ queue' = Tail(queue)
            /\ queued_as' = Tail(queued_as)
            /\ c_pc' = "get"
       ELSE /\ c_pc' = "raised"
            /\ UNCHANGED <<queue, queued_as>>
    /\ UNCHANGED <<worker_running, message_counter>>
    /\ UNCHANGED <<returned_as, decoded, last_next, reads_since_stop>>
    /\ UNCHANGED <<c_raw, last_timestamp, delta, active_device_type, printed, c_frame>>
    /\ UNCHANGED <<worker_vars, write_vars, env_vars>>
    /\ stop_queue' = IF queue # <<>> /\ stop_queue # <<>>
                     THEN Tail(stop_queue) ELSE stop_queue
    /\ clear_pending' = IF queue # <<>> /\ clear_pending > 0
                        THEN clear_pending - 1 ELSE clear_pending
    /\ UNCHANGED pending_inserts
    /\ UNCHANGED test_vars

\* self.queue.get(block=False): raises queue.Empty on an empty queue
ClearBuffersGet ==
    /\ c_pc = "clear_get"
    /\ IF queue # <<>>
       THEN /\ queue' = Tail(queue)
            /\ queued_as' = Tail(queued_as)
            /\ c_pc' = "clear"
       ELSE /\ c_pc' = "raised"
            /\ UNCHANGED <<queue, queued_as>>
    /\ UNCHANGED <<worker_running, message_counter>>
    /\ UNCHANGED <<returned_as, decoded, last_next, reads_since_stop>>
    /\ UNCHANGED <<c_raw, last_timestamp, delta, active_device_type, printed, c_frame>>
    /\ UNCHANGED <<worker_vars, write_vars, env_vars>>
    /\ stop_queue' = IF queue # <<>> /\ stop_queue # <<>>
                     THEN Tail(stop_queue) ELSE stop_queue
    /\ clear_pending' = IF queue # <<>> /\ clear_pending > 0
                        THEN clear_pending - 1 ELSE clear_pending
    /\ UNCHANGED pending_inserts
    /\ UNCHANGED test_vars

(***************************************************************************)
(* DALI_Usb.write                                                          *)
(***************************************************************************)
\* x & 0xff
And255(x) == x % 256

\* WritePacket taking every command of 3 or more bytes as a 24-bit frame
WritePacketLongAccepted(cmd, sn) ==
    IF Len(cmd) >= 3 THEN
        StructPack(DALI_USB_DIRECTION_TO_DALI, sn, DALI_USB_TYPE_24BIT,
                   cmd[1], cmd[2], cmd[3])
    ELSE IF Len(cmd) = 2 THEN
        StructPack(DALI_USB_DIRECTION_TO_DALI, sn, DALI_USB_TYPE_16BIT,
                   0, cmd[1], cmd[2])
    ELSE IF Len(cmd) = 1 THEN
        StructPack(DALI_USB_DIRECTION_TO_DALI, sn, DALI_USB_TYPE_8BIT,
                   0, 0, cmd[1])
    ELSE NoPacket

\* the packet write(cmd) builds for sequence number sn (lines 108..129);
\* NoPacket when the length is rejected (line 127)
WritePacket(cmd, sn) ==
    IF Len(cmd) = 3 THEN
        StructPack(DALI_USB_DIRECTION_TO_DALI, sn, DALI_USB_TYPE_24BIT,
                   cmd[1], cmd[2], cmd[3])
    ELSE IF Len(cmd) = 2 THEN
        StructPack(DALI_USB_DIRECTION_TO_DALI, sn, DALI_USB_TYPE_16BIT,
                   0, cmd[1], cmd[2])
    ELSE IF Len(cmd) = 1 THEN
        StructPack(DALI_USB_DIRECTION_TO_DALI, sn, DALI_USB_TYPE_8BIT,
                   0, 0, cmd[1])
    ELSE NoPacket

\* write(cmd): the counter advances first, then the length is looked at
Write ==
    /\ writes_left > 0
    /\ \E cmd \in commands :
        LET sn == message_counter
            packet == WritePacket(cmd, sn)
        IN  /\ message_counter' = And255(message_counter + 1)
            /\ write_cmd' = cmd
            /\ IF packet # NoPacket
               THEN /\ usb_out' = packet
                    /\ n_out' = n_out + 1
                    /\ write_result' = "ok"
               ELSE /\ write_result' = "Exception"
                    /\ UNCHANGED <<usb_out, n_out>>
    /\ writes_left' = writes_left - 1
    /\ UNCHANGED <<worker_running, queue>>
    /\ UNCHANGED <<worker_vars, consumer_vars, history_vars>>
    /\ UNCHANGED <<traffic, commands, reads_left, starts_left>>
    /\ UNCHANGED audit_vars
    /\ UNCHANGED test_vars

(***************************************************************************)
(* The session as the display program and other callers drive it.          *)
(***************************************************************************)
Next ==
    \/ StartRead
    \/ Close
    \/ \E w \in Workers : WorkerCheck(w)
    \/ \E w \in Workers : WorkerReadData(w)
    \/ \E w \in Workers : WorkerReadEmpty(w)
    \/ \E w \in Workers : WorkerReadError(w)
    \/ \E w \in Workers : WorkerFill(w)
    \/ \E w \in Workers : WorkerPut(w)
    \/ ConsumerGet
    \/ ConsumerTestInvalid
    \/ ConsumerDelta
    \/ ConsumerTestCommand
    \/ ConsumerDecode
    \/ ConsumerPrintCommand
    \/ ConsumerPrintError
    \/ ConsumerStore

Spec == Init /\ [][Next]_vars

\* a busy bus: the same 16-bit command arrives more often than the queue has
\* slots; the clock resolution is too coarse to tell the packets apart
FullExtra == 2
InitFull ==
    InitWith({Packet16}, {}, QueueMaxSize + FullExtra, 1, 0, MaxClock) /\ NoTest
\* with this traffic every frame the display loop sees is a COMMAND
NextFull ==
    \/ StartRead
    \/ Close
    \/ \E w \in Workers : WorkerCheck(w)
    \/ \E w \in Workers : WorkerReadData(w)
    \/ \E w \in Workers : WorkerReadEmpty(w)
    \/ \E w \in Workers : WorkerReadError(w)
    \/ \E w \in Workers : WorkerFill(w)
    \/ \E w \in Workers : WorkerPut(w)
    \/ ConsumerGet
    \/ ConsumerTestInvalid
    \/ ConsumerDelta
    \/ ConsumerTestCommand
    \/ ConsumerDecode
    \/ ConsumerPrintCommand
    \/ ConsumerStore
SpecFull == InitFull /\ [][NextFull]_vars

\* write() alone: it shares no state with the polling thread and the
\* consumer.  Commands of 0..4 bytes, a burst of MaxBurst calls.
MaxBurst == 2
ByteSamples == {0, 8, 255}
Commands == UNION {[1..n -> ByteSamples] : n \in 0..4}
InitWrite == InitWith({}, Commands, 0, 0, MaxBurst, 1) /\ NoTest
NextWrite == Write
SpecWrite == InitWrite /\ [][NextWrite]_vars

\* the framing of one bridge-originated packet, for every type code the
\* thread tells apart and one more; each of the bytes 3, 4 and 5 runs over
\* all 256 values while the other two stay on corner values
TypeBytes == {DALI_USB_RECEIVE_MASK + DALI_USB_TYPE_NO,
              DALI_USB_RECEIVE_MASK + DALI_USB_TYPE_8BIT,
              DALI_USB_RECEIVE_MASK + DALI_USB_TYPE_16BIT,
              DALI_USB_RECEIVE_MASK + DALI_USB_TYPE_24BIT,
              DALI_USB_RECEIVE_MASK + DALI_USB_TYPE_STATUS}
CornerBytes == {0, 1, 255}
FrameBytes ==
    (Byte \X CornerBytes \X CornerBytes)
        \cup (CornerBytes \X Byte \X CornerBytes)
        \cup (CornerBytes \X CornerBytes \X Byte)
InitDecode ==
    /\ \E ty \in TypeBytes, b \in FrameBytes :
        InitWith({BridgePacket(DALI_USB_DIRECTION_FROM_DALI, ty, b[1], b[2], b[3], 0)},
                 {}, 1, 1, 0, 1)
    /\ NoTest
NextDecode ==
    \/ StartRead
    \/ \E w \in Workers : WorkerCheck(w)
    \/ \E w \in Workers : WorkerReadData(w)
    \/ \E w \in Workers : WorkerFill(w)
    \/ \E w \in Workers : WorkerPut(w)
SpecDecode == InitDecode /\ [][NextDecode]_vars

\* the tests of test_207.py, one address case per step; the frame is a
\* Raw_Frame with length 16, decoded under DeviceType.LED
TestDt6Command ==
    /\ t_case < TestCases
    /\ \E c \in Dt6Commands :
        /\ c[2] = t_opcode
        /\ t_target' = TestTarget(t_case, c[1])
    /\ t_cmd' = DecodeCmd([RawFrameInit EXCEPT !.length = 16,
                               !.data = TestFrameData(t_case, t_opcode)],
                          DeviceType_LED)
    /\ t_case' = t_case + 1
    /\ UNCHANGED t_opcode
    /\ UNCHANGED <<session_vars, worker_vars, consumer_vars, write_vars, history_vars,
                   env_vars, audit_vars>>

TestDt6UndefinedCodes ==
    /\ t_case < TestCases
    /\ t_opcode \in Dt6UndefinedCodes
    /\ t_target' = TestTarget(t_case, "---")
    /\ t_cmd' = DecodeCmd([RawFrameInit EXCEPT !.length = 16,
                               !.data = TestFrameData(t_case, t_opcode)],
                          DeviceType_LED)
    /\ t_case' = t_case + 1
    /\ UNCHANGED t_opcode
    /\ UNCHANGED <<session_vars, worker_vars, consumer_vars, write_vars, history_vars,
                   env_vars, audit_vars>>

\* a consumer that also calls clear_buffers() between its reads while one
\* polling thread inserts
ClearTraffic == {Packet16, PacketStatus}
InitClear == InitWith(ClearTraffic, {}, MaxPackets, 1, 0, 1) /\ NoTest
NextClear ==
    \/ StartRead
    \/ \E w \in Workers :
        \/ WorkerCheck(w)
        \/ WorkerReadData(w)
        \/ WorkerFill(w)
        \/ WorkerPut(w)
    \/ ConsumerGet
    \/ ConsumerTestInvalid
    \/ ConsumerDelta
    \/ ConsumerTestCommand
    \/ ConsumerDecode
    \/ ConsumerPrintCommand
    \/ ConsumerPrintError
    \/ ConsumerStore
    \/ ClearBuffers
    \/ ClearBuffersTest
    \/ ClearBuffersGet
SpecClear == InitClear /\ [][NextClear]_vars

\* a session in which start_read() is called again, with or without a
\* close() in between
RestartTraffic == {Packet16, PacketStatus}
RestartPackets == 2
InitRestart == InitWith(RestartTraffic, {}, RestartPackets, MaxStarts, 0, 1) /\ NoTest
SpecRestart == InitRestart /\ [][Next]_vars

\* pytest runs each test once per parameter
InitTest ==
    /\ InitWith({}, {}, 0, 0, 0, 1)
    /\ t_opcode \in {c[2] : c \in Dt6Commands} \cup Dt6UndefinedCodes
    /\ t_case = 0
    /\ t_cmd = <<>>
    /\ t_target = <<>>
NextTest == TestDt6Command \/ TestDt6UndefinedCodes
SpecTest == InitTest /\ [][NextTest]_vars

(***************************************************************************)
(* Delivery through the queue                                              *)
(***************************************************************************)
\* C1: the frame read_raw_frame returns carries the kind, width, payload and
\* timestamp the polling thread derived from the packet that frame was
\* queued for (the k-th return carries the values of the k-th queued frame).
C1_DeliveredAsDerived ==
    c_pc = "process" => raw[c_raw] = returned_as

\* C2: the queue never holds more than 40 references; a polling thread that
\* wants to insert while 40 are queued stays at the insert with its frame,
\* and whenever a thread gets past the insert its reference has been
\* appended to the queue (the insert neither discards nor fails).
C2_BoundedBlockingPut ==
    /\ [](Len(queue) <= QueueMaxSize)
    /\ [][\A w \in Workers :
            /\ (pc[w] = "put" /\ Len(queue) = QueueMaxSize)
                    => (pc'[w] = "put" /\ raw'[w] = raw[w])
            /\ (pc[w] = "put" /\ pc'[w] # "put")
                    => (pc'[w] = "check" /\ queue' = Append(queue, w))]_vars

\* a polling thread waits at the insert in front of a full queue
C2_Witness ==
    Len(queue) = QueueMaxSize /\ \E w \in Workers : pc[w] = "put"

(***************************************************************************)
(* Failures of the transport                                               *)
(***************************************************************************)
\* the steps polling thread w can take by itself
WorkerStep(w) ==
    \/ WorkerCheck(w)
    \/ WorkerReadData(w)
    \/ WorkerReadEmpty(w)
    \/ WorkerReadError(w)
    \/ WorkerFill(w)
    \/ WorkerPut(w)

InLoop == {"check", "read", "put"} \cup FillPositions

\* C3: once close() has cleared the flag, a polling thread that is still in
\* its loop finishes at most one further read and is never held up: it can
\* always take its next step towards the loop test, where it leaves.
C3_StopEndsWorker ==
    \A w \in Workers :
        (~worker_running /\ pc[w] \in InLoop) =>
            (reads_since_stop[w] <= 1 /\ ENABLED WorkerStep(w))

\* C4: a read that fails because the device is no longer present ends the
\* polling thread with the failure raised; the thread does not go back to
\* the loop to read again.
C4_NoDeviceEndsWorker ==
    \A w \in Workers :
        (worker_running /\ read_result[w] = "ENODEV") => pc[w] = "raised"

(***************************************************************************)
(* Transmission                                                            *)
(***************************************************************************)
\* C5: the first packet handed to the transport carries sequence number 1
\* and every later packet carries the number of the packet before it plus
\* one modulo 256 (hence 256 consecutive packets carry distinct numbers).
C5_SequenceAdvancesByOne ==
    [][n_out' = n_out + 1 =>
          usb_out'[1] = IF n_out = 0 THEN 1 ELSE (usb_out[1] + 1) % 256]_vars

\* C6: a write() call with a command of length other than 1, 2 or 3 ends
\* with an exception and hands no packet to the transport.
C6_InvalidLengthRejected ==
    [][(writes_left' # writes_left /\ Len(write_cmd') \notin 1..3) =>
          (write_result' = "Exception" /\ n_out' = n_out /\ usb_out' = usb_out)]_vars

\* a 4-byte command was rejected after a packet had gone out
C6_Witness ==
    write_result = "Exception" /\ Len(write_cmd) = 4 /\ n_out = 1

\* C7: after a successful write() of a command of 1..3 bytes the packet handed
\* to the transport has 64 bytes: byte 0 the to-bridge direction, byte 1 the
\* sequence number of the call, byte 3 the type code of the width, bytes 5, 6
\* and 7 extendedCommand, address and opcode, every other byte zero.
C7_OutboundLayout ==
    write_result = "ok" =>
        LET c == write_cmd
            n == Len(write_cmd)
        IN  /\ n \in 1..3
            /\ DOMAIN usb_out = 0..63
            /\ usb_out[0] = DALI_USB_DIRECTION_TO_DALI
            /\ usb_out[1] = (message_counter + 255) % 256
            /\ usb_out[3] = (IF n = 1 THEN DALI_USB_TYPE_8BIT
                             ELSE IF n = 2 THEN DALI_USB_TYPE_16BIT
                             ELSE DALI_USB_TYPE_24BIT)
            /\ usb_out[5] = (IF n = 3 THEN c[1] ELSE 0)
            /\ usb_out[6] = (IF n = 3 THEN c[2] ELSE IF n = 2 THEN c[1] ELSE 0)
            /\ usb_out[7] = c[n]
            /\ \A i \in (0..63) \ {0, 1, 3, 5, 6, 7} : usb_out[i] = 0

\* a 3-byte command with three different bytes went out as the second packet
C7_Witness ==
    write_result = "ok" /\ write_cmd = <<8, 0, 255>> /\ n_out = 2

(***************************************************************************)
(* Framing of received packets                                             *)
(***************************************************************************)
\* C8: the frame a polling thread is about to queue for a bridge-originated
\* packet with the 8-, 16- or 24-bit type code is a COMMAND of width 8, 16 or
\* 24 whose payload is byte 5, byte 5 + 256 * byte 4, or
\* byte 5 + 256 * byte 4 + 65536 * byte 3.
C8_CommandPayload ==
    \A w \in Workers :
        (/\ pc[w] = "put"
         /\ data[w][0] = DALI_USB_DIRECTION_FROM_DALI
         /\ data[w][1] \in CommandTypeBytes) =>
            LET p == data[w]
                width == IF p[1] = DALI_USB_RECEIVE_MASK + DALI_USB_TYPE_8BIT THEN 8
                         ELSE IF p[1] = DALI_USB_RECEIVE_MASK + DALI_USB_TYPE_16BIT
                         THEN 16 ELSE 24
            IN  /\ raw[w].type = "COMMAND"
                /\ raw[w].length = width
                /\ raw[w].data = p[5] + (IF width >= 16 THEN 256 * p[4] ELSE 0)
                                      + (IF width = 24 THEN 65536 * p[3] ELSE 0)
                /\ raw[w].data < 2 ^ width

\* a 24-bit frame with three different bytes is about to be queued
C8_Witness ==
    \E w \in Workers :
        /\ pc[w] = "put"
        /\ data[w][1] = DALI_USB_RECEIVE_MASK + DALI_USB_TYPE_24BIT
        /\ data[w][3] = 255 /\ data[w][4] = 1 /\ data[w][5] = 254
        /\ raw[w].data = 16711680 + 256 + 254

\* C9: for a bridge-originated packet with the status type code the polling
\* thread does not end; it queues a frame of kind ERROR with payload 0 whose
\* error kind is RECOVER for sub-code 4, FRAME for 3 and GENERAL otherwise.
C9_StatusFrame ==
    \A w \in Workers :
        (/\ read_result[w] = "data"
         /\ data[w] # NoPacket
         /\ data[w][0] = DALI_USB_DIRECTION_FROM_DALI
         /\ data[w][1] = DALI_USB_RECEIVE_MASK + DALI_USB_TYPE_STATUS) =>
            LET kind == IF data[w][5] = 4 THEN DALIError_RECOVER
                        ELSE IF data[w][5] = 3 THEN DALIError_FRAME
                        ELSE DALIError_GENERAL
                frame == [type |-> "ERROR", timestamp |-> raw[w].timestamp,
                          length |-> kind, data |-> 0]
            IN  /\ pc[w] \in FillPositions \cup {"put", "check"}
                /\ pc[w] \in {"put", "check"} => raw[w] = frame
                /\ pc[w] = "check" =>
                        (queue # <<>> /\ queue[Len(queue)] = w
                         /\ queued_as[Len(queued_as)] = frame)

\* a status frame with sub-code 3 has been queued
C9_Witness ==
    \E w \in Workers :
        /\ pc[w] = "check" /\ read_result[w] = "data"
        /\ data[w][1] = DALI_USB_RECEIVE_MASK + DALI_USB_TYPE_STATUS
        /\ data[w][5] = 3
        /\ queue = <<w>>
        /\ raw[w].length = DALIError_FRAME

(***************************************************************************)
(* Device type context of the display loop                                 *)
(***************************************************************************)
\* C10: the device type the display loop passes to Decode and prints with
\* a frame it takes for a COMMAND is NONE for the first Decode call and
\* otherwise the next device type the previous Decode call returned,
\* whatever the frame; the context changes at no other statement, so a frame
\* the loop takes for an ERROR leaves it as it is.
C10_DeviceTypeCarriedOver ==
    [][/\ (c_pc = "print" /\ c_pc' = "store") =>
              /\ printed'.kind = "command"
              /\ printed'.device_type =
                      (IF decoded = 0 THEN DeviceType_NONE ELSE last_next)
              /\ active_device_type' = last_next'
       /\ (c_pc = "error_data" /\ c_pc' = "store") =>
              /\ printed'.kind = "error"
              /\ active_device_type' = active_device_type
       /\ (c_pc # "print") => active_device_type' = active_device_type]_vars

\* a second command was decoded in the context the first one enabled
C10_Witness ==
    /\ printed.kind = "command"
    /\ printed.device_type = DeviceType_LED
    /\ decoded = 2

(***************************************************************************)
(* Labels of decoded commands                                              *)
(***************************************************************************)
\* C11: for an opcode of the LED table, in every address case the label is
\* the tag of the address (BC, BC unadr., A and the short address in two
\* digits, G and the group in two digits) padded to 10 columns, followed by
\* the command name, which is the same in all cases.
C11_KnownOpcodeLabel ==
    (t_case > 0 /\ t_opcode \in {c[2] : c \in Dt6Commands}) =>
        /\ t_cmd = t_target
        /\ Len(t_cmd) = 11
        /\ \E c \in Dt6Commands : c[2] = t_opcode /\ t_cmd[11] = c[1]

\* group 15 of an LED opcode has been decoded, the last of the 82 cases
C11_Witness ==
    /\ t_case = TestCases
    /\ t_opcode = 224
    /\ SubSeq(t_cmd, 1, 3) = <<"G", "1", "5">>
    /\ t_cmd[11] = "REFERENCE SYSTEM POWER"

\* C12: for an opcode without an entry in the LED table, decoding returns a
\* label in every address case: the same padded address tag as for a known
\* opcode, followed by a placeholder that begins with "---".
C12_UnknownOpcodeLabel ==
    (t_case > 0 /\ t_opcode \in Dt6UndefinedCodes) =>
        /\ Len(t_cmd) >= Len(t_target)
        /\ SubSeq(t_cmd, 1, Len(t_target)) = t_target
        /\ SubSeq(t_cmd, 1, 10) = Ljust(TestTag(t_case - 1), 10)
        /\ t_cmd[11] = "---"

\* short address 63 of an undefined opcode has been decoded
C12_Witness ==
    /\ t_case = 2 + ShortCases
    /\ t_opcode = 225
    /\ SubSeq(t_cmd, 1, 3) = <<"A", "6", "3">>
    /\ t_cmd[11] = "---"

(***************************************************************************)
(* Stopping and draining                                                   *)
(***************************************************************************)
\* C13: close() leaves the queue as it is, and the frames that were queued
\* when it was called stay at the front of the queue in their order until
\* read_raw_frame returns them, the oldest first.
C13_CloseKeepsQueue ==
    /\ [](/\ Len(stop_queue) <= Len(queued_as)
          /\ SubSeq(queued_as, 1, Len(stop_queue)) = stop_queue
          /\ Len(queue) = Len(queued_as))
    /\ [][(worker_running /\ ~worker_running') =>
              (queue' = queue /\ queued_as' = queued_as)]_vars
    /\ [][(c_pc = "get" /\ c_pc' = "process" /\ stop_queue # <<>>) =>
              (returned_as' = Head(stop_queue) /\ stop_queue' = Tail(stop_queue))]_vars

\* close() has been called with two different frames queued, and the reading
\* thread has ended
C13_Witness ==
    /\ ~worker_running
    /\ \A w \in Workers : pc[w] \in {"idle", "done"}
    /\ Len(stop_queue) >= 2
    /\ stop_queue[1] # stop_queue[2]

\* C14: clear_buffers(), run by the consumer while the polling thread may
\* insert, never waits and never meets an empty queue at its removal (no
\* queue.Empty); its steps decode and print nothing; and when it returns,
\* every frame that was queued when it was called has been removed.
C14_ClearBuffers ==
    /\ [](/\ c_pc # "raised"
          /\ (c_pc = "clear") => (ENABLED ClearBuffersTest)
          /\ (c_pc = "clear_get") => (queue # <<>> /\ ENABLED ClearBuffersGet)
          /\ (c_pc \in {"clear", "clear_get"}) => (clear_pending <= Len(queue)))
    /\ [][(c_pc \in {"clear", "clear_get"}) =>
              (UNCHANGED <<c_raw, printed, decoded, last_next, active_device_type,
                           last_timestamp, delta>>)]_vars
    /\ [][(c_pc \in {"clear", "clear_get"} /\ c_pc' = "get") =>
              clear_pending' = 0]_vars

\* in the middle of a clear_buffers() call that found at least two frames:
\* one is still to be removed and the polling thread has inserted another
C14_Witness ==
    /\ c_pc = "clear"
    /\ clear_pending = 1
    /\ Len(queue) = 2

(***************************************************************************)
(* The frames the polling thread builds                                    *)
(***************************************************************************)
\* C15: a frame is not changed after it has been inserted: every queued
\* frame, and the frame the consumer took last, still has the kind, width,
\* payload and timestamp it was inserted with.
C15_FrameNeverMutated ==
    /\ \A i \in 1..Len(queue) : raw[queue[i]] = queued_as[i]
    /\ c_raw # 0 => raw[c_raw] = returned_as

\* C16: the frame a polling thread is about to insert is well formed for the
\* packet it has just read: a Command frame has the width the packet's type
\* byte stands for (8, 16 or 24) and the payload made of that packet's
\* bytes, an Error frame has payload 0 and an error kind as width; so a
\* packet with another type byte gives no Command frame.
C16_InsertedWellFormed ==
    \A w \in Workers :
        pc[w] = "put" =>
            /\ raw[w].type \in {"COMMAND", "ERROR"}
            /\ raw[w].type = "COMMAND" =>
                  \/ /\ data[w][1] = DALI_USB_RECEIVE_MASK + DALI_USB_TYPE_8BIT
                     /\ raw[w].length = 8
                     /\ raw[w].data = data[w][5]
                  \/ /\ data[w][1] = DALI_USB_RECEIVE_MASK + DALI_USB_TYPE_16BIT
                     /\ raw[w].length = 16
                     /\ raw[w].data = data[w][4] * 256 + data[w][5]
                  \/ /\ data[w][1] = DALI_USB_RECEIVE_MASK + DALI_USB_TYPE_24BIT
                     /\ raw[w].length = 24
                     /\ raw[w].data = data[w][3] * 65536 + data[w][4] * 256 + data[w][5]
            /\ raw[w].type = "ERROR" =>
                  /\ data[w][1] = DALI_USB_RECEIVE_MASK + DALI_USB_TYPE_STATUS
                  /\ raw[w].data = 0
                  /\ raw[w].length \in {DALIError_RECOVER, DALIError_FRAME, DALIError_GENERAL}

\* C17: only packets with the from-bridge direction byte lead to an insert:
\* a thread builds and inserts a frame only for such a packet, the frames inserted
\* so far are as many as the from-bridge packets read (less those whose
\* insert is in progress), every insert is that of one such packet, and
\* reading any other packet leaves the queue as it is.
C17_OnlyBridgePacketsInserted ==
    /\ [](/\ pending_inserts =
                Cardinality({w \in Workers : pc[w] \in FillPositions \cup {"put"}})
          /\ \A w \in Workers :
                pc[w] \in FillPositions \cup {"put"} =>
                    data[w][0] = DALI_USB_DIRECTION_FROM_DALI)
    /\ [][(Len(queue') > Len(queue)) =>
              (Len(queue') = Len(queue) + 1 /\ pending_inserts' = pending_inserts - 1)]_vars
    /\ [][\A w \in Workers :
              (/\ pc[w] = "read"
               /\ read_result'[w] = "data"
               /\ data'[w][0] # DALI_USB_DIRECTION_FROM_DALI) =>
                  (queue' = queue /\ pc'[w] = "check" /\ raw' = raw)]_vars

\* an echo of a host transmission has been read after a frame was inserted:
\* the thread is back at the loop test and the queue holds the one frame
C17_Witness ==
    /\ pc[1] = "check"
    /\ read_result[1] = "data"
    /\ data[1][0] = DALI_USB_DIRECTION_TO_DALI
    /\ Len(queue) = 1
    /\ decoded = 0

(***************************************************************************)
(* The polling thread                                                      *)
(***************************************************************************)
\* C18: whatever start_read() and close() calls have been made, at most one
\* thread is in the polling loop (at its test, in a read or at an insert).
C18_SingleWorker ==
    Cardinality({w \in Workers : pc[w] \in InLoop}) <= 1

\* C19: a read that times out changes nothing but the thread's position:
\* the queue, the frame objects, the sequence counter and the flag stay as
\* they are and the thread is back at the loop test, not ended; from there,
\* with the flag set, its next step is to start another read.
C19_TimeoutIsNoOp ==
    /\ [][\A w \in Workers :
              (pc[w] = "read" /\ read_result'[w] = "ETIMEDOUT") =>
                  /\ pc'[w] = "check"
                  /\ queue' = queue
                  /\ queued_as' = queued_as
                  /\ raw' = raw
                  /\ message_counter' = message_counter
                  /\ worker_running' = worker_running]_vars
    /\ [](\A w \in Workers :
              (pc[w] = "check" /\ read_result[w] = "ETIMEDOUT" /\ worker_running) =>
                  ENABLED (WorkerCheck(w) /\ pc'[w] = "read"))
    /\ [][\A w \in Workers :
              (/\ pc[w] = "check"
               /\ read_result[w] = "ETIMEDOUT"
               /\ worker_running
               /\ pc'[w] # pc[w]) => pc'[w] = "read"]_vars

\* a read has timed out while a frame is queued and the flag is set
C19_Witness ==
    /\ pc[1] = "check"
    /\ read_result[1] = "ETIMEDOUT"
    /\ worker_running
    /\ Len(queue) = 1

(***************************************************************************)
(* The sequence counter                                                    *)
(***************************************************************************)
\* C20: a write() call that is rejected for the length of its command leaves
\* message_counter as it was, so the counter is always one more (modulo
\* 256) than the number of packets handed to the transport.
C20_RejectedWriteKeepsCounter ==
    /\ [](message_counter = (1 + n_out) % 256)
    /\ [][(writes_left' # writes_left /\ write_result' = "Exception") =>
              message_counter' = message_counter]_vars

====
